---------------------------- MODULE Spec2Model ----------------------------
(***************************************************************************)
(* Model of app.py: a product catalog kept in the flat file products.json, *)
(* the filter engine (filter_products), the recommendation selector        *)
(* (get_recommendations), the homepage grouping                            *)
(* (get_products_by_category) and the Flask routes that use them.          *)
(*                                                                         *)
(* Text is a sequence of one-character strings, so that str.lower() and    *)
(* the substring test `a in b` are computed and not assumed.  A rating is  *)
(* a number of tenths (4.0 is 40).  A product is a record with the keys of *)
(* the JSON object; the key "description" may be missing, as               *)
(* p.get('description', '') allows.                                        *)
(***************************************************************************)
EXTENDS Integers, Sequences, FiniteSets, TLC

VARIABLES
    fileState,   \* products.json: "ok", "missing", "malformed" or "unreadable"
    fileData,    \* the list stored in products.json when fileState = "ok"
    pc,          \* per concurrent add_product request: "start", "loaded", "done", "failed"
    products,    \* per concurrent add_product request: its local list `products`
    form,        \* per concurrent add_product request: the submitted form
    resp,        \* the response of the last request handled
    args,        \* arguments of the pure function under examination
    given,       \* the value of args.products when the function was called
    ret,         \* what the function returned
    step         \* position of the pure-function harness

vars == <<fileState, fileData, pc, products, form, resp, args, given, ret, step>>

-----------------------------------------------------------------------------
(* Text *)

UpperChars == <<"A","B","C","D","E","F","G","H","I","J","K","L","M",
                "N","O","P","Q","R","S","T","U","V","W","X","Y","Z">>
LowerChars == <<"a","b","c","d","e","f","g","h","i","j","k","l","m",
                "n","o","p","q","r","s","t","u","v","w","x","y","z">>

lower_char(c) ==
    IF \E i \in 1..Len(UpperChars) : UpperChars[i] = c
    THEN LowerChars[CHOOSE i \in 1..Len(UpperChars) : UpperChars[i] = c]
    ELSE c

\* str.lower()
lower(s) == [i \in 1..Len(s) |-> lower_char(s[i])]

\* the substring test `sub in s`
contains(sub, s) ==
    \E i \in 0..(Len(s) - Len(sub)) : SubSeq(s, i + 1, i + Len(sub)) = sub

\* the slice s[:n] of Python, n of either sign
slice_to(s, n) ==
    IF n >= 0
    THEN SubSeq(s, 1, IF n < Len(s) THEN n ELSE Len(s))
    ELSE SubSeq(s, 1, IF Len(s) + n > 0 THEN Len(s) + n ELSE 0)

\* list.sort(key=lambda x: x['rating'], reverse=True): stable, highest first
RECURSIVE sort_by_rating(_)
sort_by_rating(s) ==
    IF s = <<>> THEN <<>>
    ELSE LET best == CHOOSE i \in 1..Len(s) :
                        /\ \A j \in 1..Len(s) : s[j].rating <= s[i].rating
                        /\ \A j \in 1..(i - 1) : s[j].rating < s[i].rating
             rest == [j \in 1..(Len(s) - 1) |-> IF j < best THEN s[j] ELSE s[j + 1]]
         IN <<s[best]>> \o sort_by_rating(rest)

\* max(xs, default=0) over a list of numbers
RECURSIVE max_default(_)
max_default(xs) ==
    IF xs = <<>> THEN 0
    ELSE LET m == max_default(Tail(xs)) IN
         IF Len(xs) = 1 \/ Head(xs) > m THEN Head(xs) ELSE m

t_empty     == <<>>
t_mobiles   == <<"m","o","b","i","l","e","s">>
t_laptops   == <<"l","a","p","t","o","p","s">>
t_earphones == <<"e","a","r","p","h","o","n","e","s">>
t_tvs       == <<"t","v","s">>

\* the default image of add_product
placeholder == <<"p","h">>

-----------------------------------------------------------------------------
(* Helper functions *)

\* p.get('description', '')
get_description(p) == IF "description" \in DOMAIN p THEN p.description ELSE t_empty

text_match_category(q, p) ==
    \/ contains(q, lower(p.name))
    \/ contains(q, lower(p.brand))
    \/ contains(q, lower(p.category))
    \/ contains(q, lower(get_description(p)))

\* the test of the search comprehension; q is search_query.lower()
text_match(q, p) ==
    \/ contains(q, lower(p.name))
    \/ contains(q, lower(p.brand))
    \/ contains(q, lower(get_description(p)))

\* the defaults of min_price and max_price
DefaultMinPrice == 0
DefaultMaxPrice == 999999

filter_products_nocopy(prods, search_query, category, min_price, max_price) ==
    LET ByText(p) == text_match(lower(search_query), p)
        ByCategory(p) == p.category = category
        ByPrice(p) == min_price <= p.price /\ p.price <= max_price
        f0 == [same_object |-> TRUE, items |-> prods]
        f1 == IF search_query # <<>>
              THEN [same_object |-> FALSE, items |-> SelectSeq(f0.items, ByText)]
              ELSE f0
        f2 == IF category # <<>>
              THEN [same_object |-> FALSE, items |-> SelectSeq(f1.items, ByCategory)]
              ELSE f1
    IN IF min_price = DefaultMinPrice /\ max_price = DefaultMaxPrice
       THEN f2
       ELSE [same_object |-> FALSE, items |-> SelectSeq(f2.items, ByPrice)]

\* filter_products(products, search_query, category, min_price, max_price).
\* `filtered = products` names the caller's list; every comprehension builds
\* a new list.  same_object tells whether the list returned is the caller's
\* list object, items is its content.
filter_products(prods, search_query, category, min_price, max_price) ==
    LET ByText(p) == text_match(lower(search_query), p)
        ByCategory(p) == p.category = category
        ByPrice(p) == min_price <= p.price /\ p.price <= max_price
        f0 == [same_object |-> TRUE, items |-> prods]
        f1 == IF search_query # <<>>
              THEN [same_object |-> FALSE, items |-> SelectSeq(f0.items, ByText)]
              ELSE f0
        f2 == IF category # <<>>
              THEN [same_object |-> FALSE, items |-> SelectSeq(f1.items, ByCategory)]
              ELSE f1
    IN [same_object |-> FALSE, items |-> SelectSeq(f2.items, ByPrice)]

\* next((p for p in products if p['id'] == product_id), None); None is <<>>
find_product(product_id, prods) ==
    IF \A i \in 1..Len(prods) : prods[i].id # product_id
    THEN <<>>
    ELSE prods[CHOOSE i \in 1..Len(prods) :
                  /\ prods[i].id = product_id
                  /\ \A j \in 1..(i - 1) : prods[j].id # product_id]

\* the products of the current product's category, the current one left out
same_category(current_product, product_id, prods) ==
    LET Keep(p) == /\ p.category = current_product.category
                   /\ p.id # product_id
    IN SelectSeq(prods, Keep)

in_band_strict(price, p) ==
    /\ 8 * price < 10 * p.price
    /\ 10 * p.price < 12 * price

\* price_min <= p['price'] <= price_max with price_min = price * 0.8 and
\* price_max = price * 1.2.  The code compares the integer p['price'] with
\* floating-point products; for integer prices these comparisons agree with
\* the exact ones, 8*price <= 10*p and 10*p <= 12*price.
in_band(price, p) ==
    /\ 8 * price <= 10 * p.price
    /\ 10 * p.price <= 12 * price

similar_price_self(current_product, product_id, prods) ==
    LET same == same_category(current_product, product_id, prods)
        Keep(p) == /\ in_band(current_product.price, p)
                   /\ \A k \in 1..Len(same) : same[k] # p
    IN SelectSeq(prods, Keep)

\* the products in the price band that are neither the current product nor
\* in same_category (`p not in same_category` compares whole records)
similar_price(current_product, product_id, prods) ==
    LET same == same_category(current_product, product_id, prods)
        Keep(p) == /\ in_band(current_product.price, p)
                   /\ p.id # product_id
                   /\ \A k \in 1..Len(same) : same[k] # p
    IN SelectSeq(prods, Keep)

get_recommendations(product_id, prods, limit) ==
    LET current_product == find_product(product_id, prods) IN
    IF current_product = <<>>
    THEN <<>>
    ELSE LET same == same_category(current_product, product_id, prods)
             similar == similar_price(current_product, product_id, prods)
         IN IF Len(same) >= limit
            THEN slice_to(same, limit)
            ELSE slice_to(same \o similar, limit)

categories == <<t_mobiles, t_laptops, t_earphones, t_tvs>>

\* get_products_by_category(products, limit_per_category): a dict keyed by
\* the four categories
get_products_by_category(prods, limit_per_category) ==
    [c \in {categories[i] : i \in 1..Len(categories)} |->
        LET InCategory(p) == p.category = c
        IN slice_to(sort_by_rating(SelectSeq(prods, InCategory)), limit_per_category)]

\* load_products(): json.load of the file.  FileNotFoundError and
\* json.JSONDecodeError are caught and give []; any other error of open(),
\* such as the PermissionError of an unreadable file, is not caught.
load_products(state, data) ==
    CASE state = "ok"         -> [raised |-> FALSE, value |-> data]
      [] state = "missing"    -> [raised |-> FALSE, value |-> <<>>]
      [] state = "malformed"  -> [raised |-> FALSE, value |-> <<>>]
      [] state = "unreadable" -> [raised |-> TRUE,  value |-> <<>>]

\* open(PRODUCTS_FILE, 'a'): the document is written after what the file holds
save_products_append(state, data, prods) ==
    IF state = "missing"
    THEN [state |-> "ok", data |-> prods]
    ELSE [state |-> "malformed", data |-> <<>>]

\* save_products(products): open(PRODUCTS_FILE, 'w') empties or creates the
\* file, json.dump writes the whole list
save_products(state, data, prods) == [state |-> "ok", data |-> prods]

new_id_by_count(prods) == Len(prods) + 1

\* max([p['id'] for p in products], default=0) + 1
new_id(prods) == max_default([i \in 1..Len(prods) |-> prods[i].id]) + 1

\* the product add_product builds from the form
new_product(prods, f) ==
    [id |-> new_id(prods), name |-> f.name, category |-> f.category,
     brand |-> f.brand, price |-> f.price, rating |-> f.rating,
     description |-> f.description, image |-> f.image]

insert_first(prods, p) == <<p>> \o prods

\* products.append(new_product)
append(prods, p) == Append(prods, p)

\* limit_per_category=5 of index, limit=4 of product_detail
HomeLimit == 5
DetailLimit == 4

-----------------------------------------------------------------------------
(* Bounds and input domains *)

MaxRecLen == 3

Product(id, name, cat, brand, price, rating, description) ==
    [id |-> id, name |-> name, category |-> cat, brand |-> brand,
     price |-> price, rating |-> rating, description |-> description,
     image |-> placeholder]

SeqsUpTo(S, n) == UNION {[1..k -> S] : k \in 0..n}

RecIds    == 1..3
RecPrices == {80, 100, 120}
RecCats   == {t_mobiles, t_tvs}
RecLimits == -1..3

RecProducts ==
    {Product(i, <<"x">>, c, <<"y">>, pr, 40, t_empty) :
        i \in RecIds, c \in RecCats, pr \in RecPrices}

MaxFilterLen == 2

t_TVs == <<"T","V","s">>
t_Mi  == <<"M","i">>
t_LG  == <<"L","G">>

\* a product without the key "description"
WithoutDescription(p) == [k \in DOMAIN p \ {"description"} |-> p[k]]

\* name, brand and description: the query "tvs" matches the first on the
\* name, the second on the brand, the third on the description, and the
\* fourth on nothing
FilterTexts ==
    {<<t_TVs, t_LG, t_empty>>, <<t_Mi, t_TVs, t_empty>>, <<t_Mi, t_LG, t_tvs>>,
     <<t_Mi, t_LG, t_empty>>}

FilterCats == {t_tvs, t_TVs, t_mobiles}

FilterProducts ==
    {Product(1, t[1], c, t[2], 500, 40, t[3]) : t \in FilterTexts, c \in FilterCats}
    \cup {WithoutDescription(Product(1, t_Mi, t_tvs, t_LG, pr, r, t_empty)) :
            pr \in {0, 999999, 1000000}, r \in {40, 45}}

FilterQueries == {t_empty, t_tvs, t_TVs}
FilterCategoryArgs == {t_empty, t_tvs, t_TVs}
FilterRanges == {<<DefaultMinPrice, DefaultMaxPrice>>, <<600, DefaultMaxPrice>>,
                 <<DefaultMinPrice, 600>>}

MaxProducts == 3
MaxSeed == 2

UniqueIds(prods) ==
    \A i, j \in 1..Len(prods) : prods[i].id = prods[j].id => i = j

\* the stores a run starts from: well-formed lists with unique positive ids,
\* not always consecutive and not always ascending
SeedProducts ==
    {Product(i, t_Mi, c, t_LG, 100, 40, t_empty) : i \in {1, 3}, c \in {t_tvs, t_mobiles}}

SeedStores == {ps \in SeqsUpTo(SeedProducts, MaxSeed) : UniqueIds(ps)}

\* the forms submitted to add_product; bad_number: the price or the rating
\* field is not a number, so that int() or float() raises ValueError
Forms ==
    {[name |-> t_Mi, category |-> c, brand |-> t_LG, price |-> o[1], rating |-> o[2],
      description |-> t_empty, image |-> placeholder, bad_number |-> FALSE] :
        c \in {t_tvs, t_mobiles}, o \in {<<100, 40>>, <<120, 45>>}}
    \cup {[name |-> t_Mi, category |-> t_tvs, brand |-> t_LG, price |-> 0, rating |-> 40,
           description |-> t_empty, image |-> placeholder, bad_number |-> TRUE]}

SearchQueries == {t_empty, t_Mi}
CategoryArgs == {t_empty, t_tvs}
CategoryNames == {t_tvs, t_mobiles, t_TVs}
PriceRanges == {<<DefaultMinPrice, DefaultMaxPrice>>, <<110, DefaultMaxPrice>>}
DetailIds == 1..4

Procs == {1, 2}

NoArgs == [fn |-> "none"]
NoResp == [route |-> "none"]

-----------------------------------------------------------------------------
(* The routes, one request handled at a time *)

Harness == <<args, given, ret, step>>
Workers == <<pc, products, form>>

\* an unhandled exception: Flask answers 500
Failed(route) == [route |-> route, status |-> 500]

InitIdle ==
    /\ pc = [p \in Procs |-> "start"]
    /\ products = [p \in Procs |-> <<>>]
    /\ form = [p \in Procs |-> <<>>]
    /\ resp = NoResp
    /\ args = NoArgs /\ given = <<>> /\ ret = <<>> /\ step = "none"

Init ==
    /\ fileState = "ok"
    /\ fileData \in SeedStores
    /\ InitIdle

InitStore ==
    /\ fileState \in {"ok", "missing", "malformed", "unreadable"}
    /\ fileData \in SeedStores
    /\ fileState # "ok" => fileData = <<>>
    /\ InitIdle

index ==
    /\ LET loaded == load_products(fileState, fileData) IN
       resp' = IF loaded.raised THEN Failed("index")
               ELSE [route |-> "index", status |-> 200, template |-> "index.html",
                     categorized_products |->
                         get_products_by_category(loaded.value, HomeLimit),
                     total_products |-> Len(loaded.value)]
    /\ UNCHANGED <<fileState, fileData, Workers, Harness>>

\* search_query and category come from the form of a POST and from the query
\* string of a GET; min_price and max_price always from the query string
search ==
    \E q \in SearchQueries, c \in CategoryArgs, r \in PriceRanges :
        /\ LET loaded == load_products(fileState, fileData)
               filtered == filter_products(loaded.value, q, c, r[1], r[2])
               sorted == sort_by_rating(filtered.items)
           IN resp' = IF loaded.raised THEN Failed("search")
                      ELSE [route |-> "search", status |-> 200,
                            template |-> "results.html", products |-> sorted,
                            search_query |-> q, category |-> c,
                            total_results |-> Len(sorted)]
        /\ UNCHANGED <<fileState, fileData, Workers, Harness>>

category ==
    \E category_name \in CategoryNames :
        /\ LET loaded == load_products(fileState, fileData)
               filtered == filter_products(loaded.value, <<>>, category_name,
                                           DefaultMinPrice, DefaultMaxPrice)
               sorted == sort_by_rating(filtered.items)
           IN resp' = IF loaded.raised THEN Failed("category")
                      ELSE [route |-> "category", status |-> 200,
                            template |-> "results.html", products |-> sorted,
                            search_query |-> <<>>, category |-> category_name,
                            total_results |-> Len(sorted)]
        /\ UNCHANGED <<fileState, fileData, Workers, Harness>>

product_detail ==
    \E product_id \in DetailIds :
        /\ LET loaded == load_products(fileState, fileData)
               product == find_product(product_id, loaded.value)
           IN resp' = IF loaded.raised THEN Failed("product_detail")
                      ELSE IF product = <<>>
                      THEN [route |-> "product_detail", status |-> 404,
                            body |-> "Product not found"]
                      ELSE [route |-> "product_detail", status |-> 200,
                            template |-> "results.html", products |-> <<product>>,
                            recommendations |->
                                get_recommendations(product_id, loaded.value, DetailLimit),
                            search_query |-> <<>>, category |-> <<>>,
                            total_results |-> 1, show_recommendations |-> TRUE]
        /\ UNCHANGED <<fileState, fileData, Workers, Harness>>

\* the whole POST handler: load, new id, append, save, redirect
add_product ==
    \E f \in Forms :
        /\ Len(fileData) < MaxProducts
        /\ LET loaded == load_products(fileState, fileData)
               prods == append(loaded.value, new_product(loaded.value, f))
               saved == save_products(fileState, fileData, prods)
           IN IF loaded.raised \/ f.bad_number
              THEN /\ resp' = Failed("add_product")
                   /\ UNCHANGED <<fileState, fileData>>
              ELSE /\ fileState' = saved.state
                   /\ fileData' = saved.data
                   /\ resp' = [route |-> "add_product", status |-> 302,
                               location |-> <<"category", f.category>>]
        /\ UNCHANGED <<Workers, Harness>>

\* GET /add-product shows the form
add_product_form ==
    /\ resp' = [route |-> "add_product", status |-> 200, template |-> "add_product.html"]
    /\ UNCHANGED <<fileState, fileData, Workers, Harness>>

\* any other URL
page_not_found ==
    /\ resp' = [route |-> "page_not_found", status |-> 404,
                template |-> "results.html", products |-> <<>>,
                search_query |-> <<>>, category |-> <<>>, total_results |-> 0,
                error_message |-> "Page not found"]
    /\ UNCHANGED <<fileState, fileData, Workers, Harness>>

Next ==
    \/ index
    \/ search
    \/ category
    \/ product_detail
    \/ add_product
    \/ add_product_form
    \/ page_not_found

Spec == Init /\ [][Next]_vars

SpecStore == InitStore /\ [][Next]_vars

-----------------------------------------------------------------------------
(* Two add_product POSTs handled concurrently.  Nothing locks the file      *)
(* between load_products and save_products, so the steps of the two          *)
(* handlers interleave.                                                      *)

InitConc ==
    /\ fileState = "ok"
    /\ fileData \in SeedStores
    /\ pc = [p \in Procs |-> "start"]
    /\ products = [p \in Procs |-> <<>>]
    /\ form \in [Procs -> Forms]
    /\ resp = NoResp
    /\ args = NoArgs /\ given = <<>> /\ ret = <<>> /\ step = "none"

\* products = load_products()
add_product_load(p) ==
    /\ pc[p] = "start"
    /\ LET loaded == load_products(fileState, fileData) IN
       IF loaded.raised
       THEN /\ pc' = [pc EXCEPT ![p] = "failed"]
            /\ resp' = Failed("add_product")
            /\ UNCHANGED products
       ELSE /\ pc' = [pc EXCEPT ![p] = "loaded"]
            /\ products' = [products EXCEPT ![p] = loaded.value]
            /\ UNCHANGED resp
    /\ UNCHANGED <<fileState, fileData, form, Harness>>

\* new id, new product, append, save_products(products), redirect
add_product_save(p) ==
    /\ pc[p] = "loaded"
    /\ LET prods == append(products[p], new_product(products[p], form[p]))
           saved == save_products(fileState, fileData, prods)
       IN IF form[p].bad_number
          THEN /\ pc' = [pc EXCEPT ![p] = "failed"]
               /\ resp' = Failed("add_product")
               /\ UNCHANGED <<fileState, fileData, products>>
          ELSE /\ pc' = [pc EXCEPT ![p] = "done"]
               /\ products' = [products EXCEPT ![p] = prods]
               /\ fileState' = saved.state
               /\ fileData' = saved.data
               /\ resp' = [route |-> "add_product", status |-> 302,
                           location |-> <<"category", form[p].category>>]
    /\ UNCHANGED <<form, Harness>>

NextConc == \E p \in Procs : add_product_load(p) \/ add_product_save(p)

SpecConc == InitConc /\ [][NextConc]_vars

-----------------------------------------------------------------------------
(* Properties of the store *)

IsPrefix(a, b) == Len(a) <= Len(b) /\ SubSeq(b, 1, Len(a)) = a

PositiveIds(prods) == \A i \in 1..Len(prods) : prods[i].id > 0

\* C1: from a store with unique positive ids, requests handled one at a time
\* keep the ids unique; whenever the store changes, one product was appended
\* and its id is the greatest id the store held plus one, or 1 for an empty
\* store.
C1_UniqueIds ==
    [][(UniqueIds(fileData) /\ PositiveIds(fileData)) =>
          /\ UniqueIds(fileData')
          /\ PositiveIds(fileData')
          /\ fileData' # fileData =>
                LET new == fileData'[Len(fileData')] IN
                /\ fileData' = Append(fileData, new)
                /\ IF fileData = <<>> THEN new.id = 1
                   ELSE /\ \E i \in 1..Len(fileData) : new.id = fileData[i].id + 1
                        /\ \A i \in 1..Len(fileData) : new.id > fileData[i].id]_vars

\* C1 witness: the store started as the products 3 and 1, in this order, and
\* add_product has given the next product the id 4.
C1_Witness ==
    /\ resp.route = "add_product"
    /\ resp.status = 302
    /\ Len(fileData) = 3
    /\ fileData[1].id = 3
    /\ fileData[2].id = 1
    /\ fileData[3].id = 4

\* the list a finished add_product had loaded
Loaded(p) == SubSeq(products[p], 1, Len(products[p]) - 1)

\* C2: when both concurrent add_product requests have completed and both had
\* loaded the same collection (each loaded before the other saved), the store
\* holds that collection and one new product only: the list the last saver
\* wrote.  The other request's product is lost.
C2_LostUpdate ==
    (pc[1] = "done" /\ pc[2] = "done" /\ Loaded(1) = Loaded(2)) =>
        /\ fileState = "ok"
        /\ Len(fileData) = Len(Loaded(1)) + 1
        /\ fileData \in {products[1], products[2]}

\* C2 witness: both requests completed, the store is what request 2 wrote and
\* the product of request 1 is nowhere in it.
C2_Witness ==
    /\ pc[1] = "done" /\ pc[2] = "done"
    /\ Loaded(1) = Loaded(2)
    /\ form[1] # form[2]
    /\ fileData = products[2]
    /\ \A i \in 1..Len(fileData) : fileData[i] # products[1][Len(products[1])]

\* C8: whatever the state of the product file (missing, unreadable,
\* malformed), the index, search, category and product-detail requests
\* complete instead of failing.
C8_LoadFailsSoft ==
    resp.route \in {"index", "search", "category", "product_detail"} =>
        resp.status # 500

\* C10: with requests handled one at a time from a readable, well-formed
\* store, every step leaves the stored collection as it was or appends one
\* record to it, and only a completed add_product POST appends.
C10_AppendOnly ==
    [][/\ fileState' = "ok"
       /\ IsPrefix(fileData, fileData')
       /\ fileData' # fileData =>
             /\ Len(fileData') = Len(fileData) + 1
             /\ resp'.route = "add_product"
             /\ resp'.status = 302]_vars

\* C10 witness: the store has grown from a seed to three products and a
\* category request has been served since.
C10_Witness ==
    /\ resp.route = "category"
    /\ Len(fileData) = 3
    /\ fileData[1].id = 3
    /\ fileData[3].id > 3

-----------------------------------------------------------------------------
(* get_recommendations on its own *)

InitRec ==
    /\ fileState = "ok" /\ fileData = <<>>
    /\ pc = [p \in Procs |-> "done"]
    /\ products = [p \in Procs |-> <<>>]
    /\ form = [p \in Procs |-> <<>>]
    /\ resp = NoResp
    /\ \E ps \in SeqsUpTo(RecProducts, MaxRecLen), i \in RecIds, l \in RecLimits :
          args = [fn |-> "get_recommendations", product_id |-> i,
                  products |-> ps, limit |-> l]
    /\ given = args.products
    /\ ret = <<>>
    /\ step = "call"

CallRecommend ==
    /\ step = "call"
    /\ args.fn = "get_recommendations"
    /\ ret' = get_recommendations(args.product_id, args.products, args.limit)
    /\ step' = "returned"
    /\ UNCHANGED <<fileState, fileData, pc, products, form, resp, args, given>>

NextRec == CallRecommend

SpecRec == InitRec /\ [][NextRec]_vars

-----------------------------------------------------------------------------
(* Properties of get_recommendations *)

Returned(fn) == step = "returned" /\ args.fn = fn

\* C3: for every collection, every product_id and every limit >= 0, the list
\* get_recommendations returns holds no product whose id is product_id and is
\* at most limit long.
C3_RecommendationExclusion ==
    (Returned("get_recommendations") /\ args.limit >= 0) =>
        /\ Len(ret) <= args.limit
        /\ \A k \in 1..Len(ret) : ret[k].id # args.product_id

\* C3 witness: the target is in the collection twice, in two categories, and
\* the list returned is full.
C3_Witness ==
    /\ Returned("get_recommendations")
    /\ args.limit = 1
    /\ Len(ret) = 1
    /\ \E i, j \in 1..Len(given) :
          /\ i # j
          /\ given[i].id = args.product_id
          /\ given[j].id = args.product_id
          /\ given[i].category # given[j].category

Siblings(target, prods) ==
    LET Keep(p) == p.category = target.category /\ p.id # target.id
    IN SelectSeq(prods, Keep)

BandOthers(target, prods) ==
    LET Keep(p) == /\ p.id # target.id
                   /\ p.category # target.category
                   /\ 8 * target.price <= 10 * p.price
                   /\ 10 * p.price <= 12 * target.price
    IN SelectSeq(prods, Keep)

FallbackCase ==
    /\ Returned("get_recommendations")
    /\ UniqueIds(given)
    /\ find_product(args.product_id, given) # <<>>
    /\ Len(Siblings(find_product(args.product_id, given), given)) < args.limit

\* C4: with unique ids and fewer than limit siblings, the result is the
\* siblings in collection order, then the other products whose price p has
\* 0.8*price <= p <= 1.2*price in collection order, cut to limit, and no
\* product is in it twice.
C4_RecommendationFallback ==
    FallbackCase =>
        LET target == find_product(args.product_id, given)
            all == Siblings(target, given) \o BandOthers(target, given)
        IN /\ ret = SubSeq(all, 1, IF args.limit < Len(all) THEN args.limit ELSE Len(all))
           /\ \A i, j \in 1..Len(ret) : ret[i] = ret[j] => i = j

\* C4 witness: one sibling, then a product of another category whose price is
\* exactly 1.2 times the target's.
C4_Witness ==
    /\ FallbackCase
    /\ Len(ret) = 2
    /\ ret[1].category = find_product(args.product_id, given).category
    /\ ret[2].category # ret[1].category
    /\ 10 * ret[2].price = 12 * find_product(args.product_id, given).price

-----------------------------------------------------------------------------
(* filter_products on its own, then the in-place sort the routes apply *)

InitFilter ==
    /\ fileState = "ok" /\ fileData = <<>>
    /\ pc = [p \in Procs |-> "done"]
    /\ products = [p \in Procs |-> <<>>]
    /\ form = [p \in Procs |-> <<>>]
    /\ resp = NoResp
    /\ \E ps \in SeqsUpTo(FilterProducts, MaxFilterLen), q \in FilterQueries,
          c \in FilterCategoryArgs, r \in FilterRanges :
          args = [fn |-> "filter_products", products |-> ps, search_query |-> q,
                  category |-> c, min_price |-> r[1], max_price |-> r[2]]
    /\ given = args.products
    /\ ret = <<>>
    /\ step = "call"

CallFilter ==
    /\ step = "call"
    /\ args.fn = "filter_products"
    /\ ret' = filter_products(args.products, args.search_query, args.category,
                              args.min_price, args.max_price)
    /\ step' = "returned"
    /\ UNCHANGED <<fileState, fileData, pc, products, form, resp, args, given>>

\* filtered_products.sort(key=lambda x: x['rating'], reverse=True) of search
\* and category: it sorts the list object returned, whichever that is
SortReturned ==
    /\ step = "returned"
    /\ args.fn = "filter_products"
    /\ ret' = [ret EXCEPT !.items = sort_by_rating(ret.items)]
    /\ args' = IF ret.same_object
               THEN [args EXCEPT !.products = sort_by_rating(ret.items)]
               ELSE args
    /\ step' = "sorted"
    /\ UNCHANGED <<fileState, fileData, pc, products, form, resp, given>>

NextFilter == CallFilter \/ SortReturned

SpecFilter == InitFilter /\ [][NextFilter]_vars

-----------------------------------------------------------------------------
(* Properties of filter_products *)

KnownCategories == {t_mobiles, t_laptops, t_earphones, t_tvs}

NoCriteria ==
    /\ args.search_query = <<>>
    /\ args.category = <<>>
    /\ args.min_price = DefaultMinPrice
    /\ args.max_price = DefaultMaxPrice

\* C5: with no criteria (empty search_query, empty category, the default
\* price range) filter_products returns exactly the input products in their
\* original order, whatever their non-negative integer prices.
C5_EmptyCriteriaIdentity ==
    (Returned("filter_products") /\ NoCriteria) => ret.items = given

\* C6: a product whose category differs from the category argument only in
\* letter case passes the category filter.
C6_CategoryCaseInsensitive ==
    (Returned("filter_products") /\ args.search_query = <<>> /\ args.category # <<>>) =>
        \A i \in 1..Len(given) :
            ( /\ lower(given[i].category) = lower(args.category)
              /\ args.min_price <= given[i].price
              /\ given[i].price <= args.max_price )
            => \E k \in 1..Len(ret.items) : ret.items[k] = given[i]

RECURSIVE IsSubsequence(_, _)
IsSubsequence(a, b) ==
    IF a = <<>> THEN TRUE
    ELSE IF b = <<>> THEN FALSE
    ELSE IF Head(a) = Head(b) THEN IsSubsequence(Tail(a), Tail(b))
    ELSE IsSubsequence(a, Tail(b))

\* C9: filter_products returns a subsequence of its input in input order, the
\* list it returns is never the input list object, and the input list is
\* unchanged after the call and after the in-place sort of the returned list.
C9_FilterFrame ==
    (args.fn = "filter_products" /\ step \in {"returned", "sorted"}) =>
        /\ args.products = given
        /\ ~ret.same_object
        /\ step = "returned" => IsSubsequence(ret.items, given)

\* C9 witness: no criteria, and the sort has swapped the two products returned
\* while the input list keeps its order.
C9_Witness ==
    /\ args.fn = "filter_products"
    /\ step = "sorted"
    /\ NoCriteria
    /\ Len(given) = 2
    /\ given[1] # given[2]
    /\ ret.items = <<given[2], given[1]>>
    /\ args.products = given

=============================================================================
